---- MODULE Spec2Model ----
(***************************************************************************)
(* Model of EnhancedJumiaScraper (src/Jumia_scrapper2.py): the run         *)
(* orchestrator scrape_all_categories, the category runner                 *)
(* scrape_category, the page processor process_products and the product    *)
(* builder extract_product_data with its helpers.                          *)
(*                                                                         *)
(* Conventions.                                                            *)
(*  - A Python Optional is a sequence: <<>> is None, <<v>> is the value v. *)
(*  - A text is a sequence of one-character strings.                       *)
(*  - A price is an integer number of hundredths (Scale units per MAD).    *)
(*  - The browser is the environment: a page visit fails, yields zero      *)
(*    containers or yields n containers; the text of a container is read   *)
(*    when extract_product_data queries it.                                *)
(***************************************************************************)
EXTENDS Integers, Sequences, FiniteSets, TLC

VARIABLES
    visited,                 \* history: page visits of the run, by outcome
    pc,                      \* position in scrape_all_categories / scrape_category
    max_pages_per_category,  \* argument of scrape_all_categories (Optional int)
    categories,              \* self.categories, in dict order
    ci,                      \* position of the category loop (1-based)
    page_num,                \* loop variable of scrape_category
    containers_left,         \* containers of the current page not yet processed
    page_products,           \* local list of process_products
    category_products,       \* local list of scrape_category
    products,                \* self.products
    categories_scraped,      \* self.categories_scraped
    scraping_stats,          \* self.scraping_stats
    product_data,            \* last result of extract_product_data (Optional)
    container,               \* last container handed to extract_product_data (Optional)
    attempted,               \* history: category keys scrape_category was called with
    page_log,                \* history: outcomes of the page visits of the current category
    slept,                   \* history: time.sleep(2) ran since the last page request
    undelayed,               \* history: a page > 1 was requested without that delay
    last_return,             \* history: how the last scrape_category call ended
    at_start,                \* history: counters when the current category started
    budget                   \* remaining environment events (bounding only)

vars == << pc, max_pages_per_category, categories, ci, page_num, containers_left,
           page_products, category_products, products, categories_scraped,
           scraping_stats, product_data, container, attempted, page_log, slept,
           undelayed, last_return, at_start, budget, visited >>

----------------------------------------------------------------------------
(* Bounds of the environment *)

MaxEvents == 3     \* containers returned plus exceptions raised over a whole run
MaxOverride == 1   \* largest page-count override tried
MaxLiveEvents == 2 \* as MaxEvents, for the runs checked for termination
MaxTextLen == 3    \* longest generated price text

None == << >>
Some(v) == << v >>
IsNone(o) == o = << >>
Val(o) == o[1]

PriceDecimals == 2
Scale == 10 ^ PriceDecimals

----------------------------------------------------------------------------
(* Texts *)

Digits == {"0", "1", "2", "3", "4", "5", "6", "7", "8", "9"}

DigitVal(c) ==
    CASE c = "0" -> 0 [] c = "1" -> 1 [] c = "2" -> 2 [] c = "3" -> 3
      [] c = "4" -> 4 [] c = "5" -> 5 [] c = "6" -> 6 [] c = "7" -> 7
      [] c = "8" -> 8 [] c = "9" -> 9

RECURSIVE Keep(_, _)
Keep(s, set) ==
    IF s = << >> THEN << >>
    ELSE IF Head(s) \in set THEN << Head(s) >> \o Keep(Tail(s), set)
         ELSE Keep(Tail(s), set)

RECURSIVE DigitsValue(_)
DigitsValue(s) ==
    IF s = << >> THEN 0
    ELSE DigitsValue(SubSeq(s, 1, Len(s) - 1)) * 10 + DigitVal(s[Len(s)])

Pow10(n) == 10 ^ n

\* float(cleaned) for a string of digits and periods: -1 stands for ValueError.
\* Fraction digits beyond PriceDecimals are dropped (inputs carry at most that many).
ParseFloat(s) ==
    LET dots == { i \in 1..Len(s) : s[i] = "." }
    IN  IF Cardinality(dots) > 1 \/ Cardinality(dots) = Len(s) THEN -1
        ELSE IF dots = {} THEN DigitsValue(s) * Scale
        ELSE LET d    == CHOOSE i \in dots : TRUE
                 ip   == SubSeq(s, 1, d - 1)
                 fr   == SubSeq(s, d + 1, Len(s))
                 frk  == SubSeq(fr, 1, IF Len(fr) < PriceDecimals THEN Len(fr) ELSE PriceDecimals)
             IN  DigitsValue(ip) * Scale + DigitsValue(frk) * Pow10(PriceDecimals - Len(frk))

\* Faulty variant: the commas are not removed before float() (line 274 left out).
clean_price_KeepCommas(price_text) ==
    IF price_text = << >> THEN 0
    ELSE LET kept == Keep(price_text, Digits \cup {",", "."})
         IN  IF kept = << >> \/ \E i \in 1..Len(kept) : kept[i] = "," THEN 0
             ELSE IF ParseFloat(kept) < 0 THEN 0 ELSE ParseFloat(kept)

clean_price(price_text) ==
    IF price_text = << >> THEN 0
    ELSE LET kept    == Keep(price_text, Digits \cup {",", "."})
             cleaned == Keep(kept, Digits \cup {"."})
         IN  IF cleaned = << >> THEN 0
             ELSE IF ParseFloat(cleaned) < 0 THEN 0 ELSE ParseFloat(cleaned)

\* clean_price of jumia_scrapper.py: the same cleaning, with None where the
\* method of EnhancedJumiaScraper returns 0.0.
clean_price_standalone(price_text) ==
    IF price_text = << >> THEN None
    ELSE LET kept    == Keep(price_text, Digits \cup {",", "."})
             cleaned == Keep(kept, Digits \cup {"."})
         IN  IF cleaned = << >> THEN None
             ELSE IF ParseFloat(cleaned) < 0 THEN None ELSE Some(ParseFloat(cleaned))

----------------------------------------------------------------------------
(* Configuration: self.base_categories, in insertion order (lines 36-62).   *)
(* expected_products is informational and read by no operation modelled.    *)

base_categories ==
    << [key |-> "ordinateurs-pc",          name |-> "Laptops & Computers", default_pages |-> 4],
       [key |-> "telephones-smartphones",  name |-> "Smartphones",         default_pages |-> 4],
       [key |-> "tv-home-cinema-lecteurs", name |-> "Televisions",         default_pages |-> 3],
       [key |-> "mlp-electromenager",      name |-> "Home Appliances",     default_pages |-> 3],
       [key |-> "jeux-videos-consoles",    name |-> "Gaming",              default_pages |-> 2] >>

\* isinstance(max_pages_per_category, int) and max_pages_per_category >= 1
OverrideApplies(o) == ~IsNone(o) /\ Val(o) >= 1

\* Faulty variant: the override test written "> 1", so an override of one page is ignored.
categories_to_scrape_StrictTest(o) ==
    [ i \in 1..Len(base_categories) |->
        [ key   |-> base_categories[i].key,
          name  |-> base_categories[i].name,
          pages |-> IF ~IsNone(o) /\ Val(o) > 1 THEN Val(o)
                    ELSE base_categories[i].default_pages ] ]

categories_to_scrape(o) ==
    [ i \in 1..Len(base_categories) |->
        [ key   |-> base_categories[i].key,
          name  |-> base_categories[i].name,
          pages |-> IF OverrideApplies(o) THEN Val(o)
                    ELSE base_categories[i].default_pages ] ]

----------------------------------------------------------------------------
(* Metric calculator and product builder *)

\* round(n / d) to the nearest integer, ties to even (n >= 0, d > 0)
RoundDiv(n, d) ==
    LET q == n \div d
        r == n % d
    IN  IF 2 * r < d THEN q
        ELSE IF 2 * r > d THEN q + 1
        ELSE IF q % 2 = 0 THEN q ELSE q + 1

\* Faulty variant: the percentage is cut to two decimals instead of rounded.
calculate_discount_Truncated(current_price, original_price) ==
    IF original_price = 0 \/ original_price <= current_price THEN 0
    ELSE ((original_price - current_price) * 100 * Scale) \div original_price

\* Result in hundredths of a percent: round(x, 2) keeps two decimals.
calculate_discount(current_price, original_price) ==
    IF original_price = 0 \/ original_price <= current_price THEN 0
    ELSE RoundDiv((original_price - current_price) * 100 * Scale, original_price)

\* `not original_price` (line 325) is true of None and of 0.0 alike.
NumberOrZero(o) == IF IsNone(o) THEN 0 ELSE Val(o)

\* price_ranges of classify_price_tier, lines 331-337, in MAD
price_ranges ==
    << [key |-> "ordinateurs-pc",          budget |-> 3000, premium |-> 10000],
       [key |-> "telephones-smartphones",  budget |-> 2000, premium |-> 6000],
       [key |-> "tv-home-cinema-lecteurs", budget |-> 2500, premium |-> 8000],
       [key |-> "mlp-electromenager",      budget |-> 1500, premium |-> 5000],
       [key |-> "jeux-videos-consoles",    budget |-> 1000, premium |-> 4000] >>

default_range == [key |-> "", budget |-> 1000, premium |-> 5000]

\* price_ranges.get(category_key, {"budget": 1000, "premium": 5000})
ranges_of(category_key) ==
    IF \E i \in 1..Len(price_ranges) : price_ranges[i].key = category_key
    THEN price_ranges[CHOOSE i \in 1..Len(price_ranges) : price_ranges[i].key = category_key]
    ELSE default_range

\* Faulty variant: the thresholds tested with "<", so a price on a threshold moves up a tier.
classify_price_tier_Exclusive(price, category_key) ==
    IF price < ranges_of(category_key).budget * Scale THEN "Budget"
    ELSE IF price < ranges_of(category_key).premium * Scale THEN "Mid-range"
    ELSE "Premium"

classify_price_tier(price, category_key) ==
    IF price <= ranges_of(category_key).budget * Scale THEN "Budget"
    ELSE IF price <= ranges_of(category_key).premium * Scale THEN "Mid-range"
    ELSE "Premium"

Min(a, b) == IF a < b THEN a ELSE b
Max(a, b) == IF a > b THEN a ELSE b

\* Faulty variant: the price steps tested with "<=".
calculate_value_score_Inclusive(current_price, original_price, discount_percent) ==
    LET discount_bonus == Min(discount_percent * 6, 30 * 1000)
        price_bonus == IF current_price <= 1000 * Scale THEN 20
                       ELSE IF current_price <= 3000 * Scale THEN 10
                       ELSE IF current_price <= 5000 * Scale THEN 0
                       ELSE -10
        total_score == 50 * 1000 + discount_bonus + price_bonus * 1000
    IN  RoundDiv(Max(0, Min(100 * 1000, total_score)), 10)

\* discount_percent comes in hundredths of a percent; the sum is formed in
\* thousandths of a point (0.6 of a hundredth is 6 thousandths) and the
\* result, round(..., 2), is in hundredths of a point.
calculate_value_score(current_price, original_price, discount_percent) ==
    LET discount_bonus == Min(discount_percent * 6, 30 * 1000)
        price_bonus == IF current_price < 1000 * Scale THEN 20
                       ELSE IF current_price < 3000 * Scale THEN 10
                       ELSE IF current_price < 5000 * Scale THEN 0
                       ELSE -10
        total_score == 50 * 1000 + discount_bonus + price_bonus * 1000
    IN  RoundDiv(Max(0, Min(100 * 1000, total_score)), 10)

SiteRoot == << "https://www.jumia.ma" >>

RECURSIVE LStrip(_)
LStrip(s) == IF s # << >> /\ Head(s) = " " THEN LStrip(Tail(s)) ELSE s

RECURSIVE RStrip(_)
RStrip(s) == IF s # << >> /\ s[Len(s)] = " " THEN RStrip(SubSeq(s, 1, Len(s) - 1)) ELSE s

Strip(s) == LStrip(RStrip(s))

\* f"{product_index:04d}": at least four digits, zero padded
RECURSIVE DecimalDigits(_)
DecimalDigits(n) ==
    IF n < 10 THEN << n >> ELSE DecimalDigits(n \div 10) \o << n % 10 >>

RECURSIVE ZeroPad(_, _)
ZeroPad(ds, width) == IF Len(ds) >= width THEN ds ELSE ZeroPad(<< 0 >> \o ds, width)

IdWidth == 4
product_id_of(product_index) == << "JUM_" >> \o ZeroPad(DecimalDigits(product_index), IdWidth)

\* Faulty variant: the zero-price gate of line 223 left out.
extract_product_data_NoGate(c, category_key, category_name, product_index) ==
    IF c.raises THEN None
    ELSE
      LET current_price    == clean_price(IF IsNone(c.price) THEN << "0" >> ELSE Val(c.price))
          original_price   == clean_price(IF IsNone(c.old) THEN << "0" >> ELSE Val(c.old))
          discount_percent == calculate_discount(current_price, original_price)
      IN  Some([ product_id       |-> product_id_of(product_index),
                 product_name     |-> IF IsNone(c.name) THEN << "N", "/", "A" >> ELSE Strip(Val(c.name)),
                 category         |-> category_name,
                 category_key     |-> category_key,
                 current_price    |-> current_price,
                 original_price   |-> IF original_price > 0 THEN Some(original_price) ELSE None,
                 discount_percent |-> discount_percent,
                 price_tier       |-> classify_price_tier(current_price, category_key),
                 value_score      |-> calculate_value_score(current_price, original_price,
                                                            discount_percent),
                 is_on_sale       |-> discount_percent > 0,
                 url              |-> IF IsNone(c.href) \/ Val(c.href) = << >> THEN << >>
                                      ELSE SiteRoot \o Val(c.href) ])

\* Faulty variant: original_price stored as parsed, the "> 0" test of line 250 left out.
extract_product_data_KeepZeroOld(c, category_key, category_name, product_index) ==
    LET built == extract_product_data_NoGate(c, category_key, category_name, product_index)
        original_price == clean_price(IF IsNone(c.old) THEN << "0" >> ELSE Val(c.old))
    IN  IF IsNone(built) \/ Val(built).current_price = 0 THEN None
        ELSE Some([ Val(built) EXCEPT !.original_price = Some(original_price) ])

\* A container is the element handle of one article.prd: the texts of its
\* h3.name, div.prc and div.old children and the href of its a.core child
\* (None when the child, or the attribute, is missing); raises says that a
\* query on the handle throws.  brand, model and the three time stamps of
\* the record are not part of this record value.
extract_product_data(c, category_key, category_name, product_index) ==
    IF c.raises THEN None
    ELSE
      LET current_price    == clean_price(IF IsNone(c.price) THEN << "0" >> ELSE Val(c.price))
          original_price   == clean_price(IF IsNone(c.old) THEN << "0" >> ELSE Val(c.old))
          discount_percent == calculate_discount(current_price, original_price)
      IN  IF current_price = 0 THEN None
          ELSE Some([ product_id       |-> product_id_of(product_index),
                      product_name     |-> IF IsNone(c.name) THEN << "N", "/", "A" >> ELSE Strip(Val(c.name)),
                      category         |-> category_name,
                      category_key     |-> category_key,
                      current_price    |-> current_price,
                      original_price   |-> IF original_price > 0 THEN Some(original_price) ELSE None,
                      discount_percent |-> discount_percent,
                      price_tier       |-> classify_price_tier(current_price, category_key),
                      value_score      |-> calculate_value_score(current_price, original_price,
                                                                 discount_percent),
                      is_on_sale       |-> discount_percent > 0,
                      url              |-> IF IsNone(c.href) \/ Val(c.href) = << >> THEN << >>
                                           ELSE SiteRoot \o Val(c.href) ])

----------------------------------------------------------------------------
(* The environment's containers *)

NameText == << " ", "H", "P", " ", "1", "5" >>

HrefText == << "/", "hp-15.html" >>

ValidPriceTexts == { Some(<< "9", "9", ".", "0", "0", " ", "D", "h", "s" >>) }

\* no div.prc, an empty one, no digit, a zero, and a text float() rejects
ZeroPriceTexts ==
    { None,
      Some(<< >>),
      Some(<< "N", "/", "A" >>),
      Some(<< "0", ".", "0", "0", " ", "D", "h", "s" >>),
      Some(<< "1", ".", "2", ".", "3" >>) }

LowerOldText == << "5", "0", ".", "0", "0", " ", "D", "h", "s" >>

HigherOldText == << "1", ",", "2", "0", "0", ".", "5", "0", " ", "D", "h", "s" >>

OldTexts == { None, Some(LowerOldText), Some(HigherOldText) }

Container(n, p, o, h, r) == [ name |-> n, price |-> p, old |-> o, href |-> h, raises |-> r ]

\* Containers with a price (every kind of old price), containers whose price
\* cleans to zero (bare, and with name, old price and link all present), and
\* a container whose queries throw.
Containers ==
    { Container(Some(NameText), p, o, Some(HrefText), FALSE) :
        p \in ValidPriceTexts, o \in OldTexts }
    \cup
    { Container(None, p, None, None, FALSE) : p \in ZeroPriceTexts }
    \cup
    { Container(Some(NameText), p, Some(HigherOldText), Some(HrefText), FALSE) :
        p \in ZeroPriceTexts }
    \cup
    { Container(Some(NameText), p, None, Some(HrefText), TRUE) : p \in ValidPriceTexts }

Overrides == { None } \cup { Some(n) : n \in 1..MaxOverride }

----------------------------------------------------------------------------
(* State *)

CurrentCategory == categories[ci]

pages_to_scrape == CurrentCategory.pages

\* History of one page visit: its outcome ("fail", "zero", "ok"), the kind of
\* every container processed so far and the records process_products returned.
LogVisit(outcome) ==
    Append(page_log, [ outcome |-> outcome, kinds |-> << >>, records |-> << >> ])

\* What a container is to the product builder: its queries throw, its price
\* cleans to zero, or it carries a price.
KindOf(c) ==
    IF c.raises THEN "raised"
    ELSE IF clean_price(IF IsNone(c.price) THEN << "0" >> ELSE Val(c.price)) = 0 THEN "zero"
    ELSE "valid"

InitWith(events) ==
    /\ pc = "init"
    /\ max_pages_per_category = None
    /\ categories = << >>
    /\ ci = 0
    /\ page_num = 0
    /\ containers_left = 0
    /\ page_products = << >>
    /\ category_products = << >>
    /\ products = << >>
    /\ categories_scraped = [ k \in {} |-> 0 ]
    /\ scraping_stats = [ total_products |-> 0, categories_processed |-> 0,
                          pages_scraped |-> 0, errors |-> 0, end_time |-> FALSE ]
    /\ product_data = None
    /\ container = None
    /\ attempted = << >>
    /\ page_log = << >>
    /\ slept = FALSE
    /\ undelayed = FALSE
    /\ last_return = "none"
    /\ at_start = [ errors |-> 0, products |-> 0 ]
    /\ budget = events
    /\ visited = [ ok |-> 0, fail |-> 0, zero |-> 0 ]

Init == InitWith(MaxEvents)

FairInit == InitWith(MaxLiveEvents)

----------------------------------------------------------------------------
(* scrape_all_categories, lines 74-113: build the active category list and  *)
(* open the browser session.                                                *)
ScrapeAllCategories ==
    /\ pc = "init"
    /\ \E o \in Overrides :
         /\ max_pages_per_category' = o
         /\ categories' = categories_to_scrape(o)
    /\ ci' = 1
    /\ pc' = "category_loop"
    /\ UNCHANGED << page_num, containers_left, page_products, category_products,
                    products, categories_scraped, scraping_stats, product_data,
                    container, attempted, page_log, slept, undelayed, last_return,
                    at_start, budget, visited >>

(* lines 116-118 and 139-143: the orchestrator calls scrape_category *)
StartCategory ==
    /\ pc = "category_loop"
    /\ ci <= Len(categories)
    /\ category_products' = << >>
    /\ page_num' = 0
    /\ pc' = "page_loop"
    /\ attempted' = Append(attempted, CurrentCategory.key)
    /\ page_log' = << >>
    /\ slept' = FALSE
    /\ last_return' = "running"
    /\ at_start' = [ errors |-> scraping_stats.errors, products |-> Len(products) ]
    /\ UNCHANGED << max_pages_per_category, categories, ci, containers_left,
                    page_products, products, categories_scraped, scraping_stats,
                    product_data, container, undelayed, budget, visited >>

\* The request of the next page: the loop variable advances, and the history
\* notes whether time.sleep(2) ran since the previous request of this category.
RequestPage ==
    /\ pc = "page_loop"
    /\ page_num < pages_to_scrape
    /\ page_num' = page_num + 1
    /\ undelayed' = (undelayed \/ (page_num >= 1 /\ ~slept))
    /\ slept' = FALSE

(* lines 145-152 throwing (goto or wait_for_selector): control reaches 170 *)
PageFails ==
    /\ RequestPage
    /\ budget > 0
    /\ budget' = budget - 1
    /\ page_log' = LogVisit("fail")
    /\ visited' = [ visited EXCEPT !.fail = @ + 1 ]
    /\ pc' = "page_except"
    /\ UNCHANGED << max_pages_per_category, categories, ci, containers_left,
                    page_products, category_products, products, categories_scraped,
                    scraping_stats, product_data, container, attempted, last_return,
                    at_start >>

\* Faulty variant: the page-level handler forgets to count the error.
PageErrorHandled_NoCount ==
    /\ pc = "page_except"
    /\ pc' = "page_loop"
    /\ UNCHANGED << max_pages_per_category, categories, ci, page_num, containers_left,
                    page_products, category_products, products, categories_scraped,
                    scraping_stats, product_data, container, attempted, page_log, slept,
                    undelayed, last_return, at_start, budget, visited >>

(* lines 170-173: the page-level handler *)
PageErrorHandled ==
    /\ pc = "page_except"
    /\ scraping_stats' = [ scraping_stats EXCEPT !.errors = @ + 1 ]
    /\ pc' = "page_loop"
    /\ UNCHANGED << max_pages_per_category, categories, ci, page_num, containers_left,
                    page_products, category_products, products, categories_scraped,
                    product_data, container, attempted, page_log, slept, undelayed,
                    last_return, at_start, budget, visited >>

\* Faulty variant: the orchestrator's handler lets the error through and the run stops.
CategoryRaises_Abort ==
    /\ pc = "page_except"
    /\ budget > 0
    /\ budget' = budget - 1
    /\ category_products' = << >>
    /\ last_return' = "raised"
    /\ pc' = "aborted"
    /\ UNCHANGED << max_pages_per_category, categories, ci, page_num, containers_left,
                    page_products, products, categories_scraped, scraping_stats,
                    product_data, container, attempted, page_log, slept, undelayed,
                    at_start, visited >>

(* An exception raised while the handler of line 170 runs (line 171) is     *)
(* covered by no try of scrape_category: it leaves scrape_category, whose   *)
(* locals are dropped, and is caught by the orchestrator, lines 127-129.    *)
CategoryRaises ==
    /\ pc = "page_except"
    /\ budget > 0
    /\ budget' = budget - 1
    /\ category_products' = << >>
    /\ last_return' = "raised"
    /\ scraping_stats' = [ scraping_stats EXCEPT !.errors = @ + 1 ]
    /\ ci' = ci + 1
    /\ pc' = "category_loop"
    /\ UNCHANGED << max_pages_per_category, categories, page_num, containers_left,
                    page_products, products, categories_scraped, product_data,
                    container, attempted, page_log, slept, undelayed, at_start, visited >>

\* Faulty variant: the break of line 161 is missing, the loop goes on to the next page.
PageEmpty_Continue ==
    /\ RequestPage
    /\ page_log' = LogVisit("zero")
    /\ visited' = [ visited EXCEPT !.zero = @ + 1 ]
    /\ pc' = "page_loop"
    /\ UNCHANGED << max_pages_per_category, categories, ci, containers_left,
                    page_products, category_products, products, categories_scraped,
                    scraping_stats, product_data, container, attempted, last_return,
                    at_start, budget >>

\* Faulty variant: the page without containers is counted as scraped before the break.
PageEmpty_Counted ==
    /\ RequestPage
    /\ page_log' = LogVisit("zero")
    /\ visited' = [ visited EXCEPT !.zero = @ + 1 ]
    /\ scraping_stats' = [ scraping_stats EXCEPT !.pages_scraped = @ + 1 ]
    /\ pc' = "store"
    /\ UNCHANGED << max_pages_per_category, categories, ci, containers_left,
                    page_products, category_products, products, categories_scraped,
                    product_data, container, attempted, last_return, at_start, budget >>

(* lines 151-161: the page loads and holds no article.prd: break *)
PageEmpty ==
    /\ RequestPage
    /\ page_log' = LogVisit("zero")
    /\ visited' = [ visited EXCEPT !.zero = @ + 1 ]
    /\ pc' = "store"
    /\ UNCHANGED << max_pages_per_category, categories, ci, containers_left,
                    page_products, category_products, products, categories_scraped,
                    scraping_stats, product_data, container, attempted, last_return,
                    at_start, budget >>

(* lines 151-157 and 164, 187: the page holds n containers *)
PageFound ==
    /\ RequestPage
    /\ \E n \in 1..budget :
         /\ containers_left' = n
         /\ budget' = budget - n
    /\ page_products' = << >>
    /\ page_log' = LogVisit("ok")
    /\ visited' = [ visited EXCEPT !.ok = @ + 1 ]
    /\ pc' = "process"
    /\ UNCHANGED << max_pages_per_category, categories, ci, category_products,
                    products, categories_scraped, scraping_stats, product_data,
                    container, attempted, last_return, at_start >>

\* Faulty variant: the identifier index is taken from the position i of the
\* container in the page, not from the number of records accepted so far.
ProcessProduct_ByPosition ==
    /\ pc = "process"
    /\ containers_left > 0
    /\ \E c \in Containers :
         LET i == Len(page_log[Len(page_log)].kinds)
             result == extract_product_data(c, CurrentCategory.key, CurrentCategory.name,
                                            Len(products) + i + 1)
         IN  /\ container' = Some(c)
             /\ product_data' = result
             /\ page_products' = IF IsNone(result) THEN page_products
                                 ELSE Append(page_products, Val(result))
             /\ page_log' = [ page_log EXCEPT ![Len(page_log)].kinds = Append(@, KindOf(c)) ]
    /\ containers_left' = containers_left - 1
    /\ UNCHANGED << pc, max_pages_per_category, categories, ci, page_num,
                    category_products, products, categories_scraped, scraping_stats,
                    attempted, slept, undelayed, last_return, at_start, budget, visited >>

(* lines 189-202: one iteration of the loop of process_products.  The       *)
(* handler of line 199 is not reached: extract_product_data catches every   *)
(* exception itself (line 263) and returns None.                            *)
ProcessProduct ==
    /\ pc = "process"
    /\ containers_left > 0
    /\ \E c \in Containers :
         LET current_product_count == Len(products) + Len(page_products)
             result == extract_product_data(c, CurrentCategory.key, CurrentCategory.name,
                                            current_product_count + 1)
         IN  /\ container' = Some(c)
             /\ product_data' = result
             /\ page_products' = IF IsNone(result) THEN page_products
                                 ELSE Append(page_products, Val(result))
             /\ page_log' = [ page_log EXCEPT ![Len(page_log)].kinds = Append(@, KindOf(c)) ]
    /\ containers_left' = containers_left - 1
    /\ UNCHANGED << pc, max_pages_per_category, categories, ci, page_num,
                    category_products, products, categories_scraped, scraping_stats,
                    attempted, slept, undelayed, last_return, at_start, budget, visited >>

(* lines 204 and 165-168: process_products returns, the page is counted and *)
(* the polite delay runs                                                    *)
PageProcessed ==
    /\ pc = "process"
    /\ containers_left = 0
    /\ category_products' = category_products \o page_products
    /\ scraping_stats' = [ scraping_stats EXCEPT !.pages_scraped = @ + 1 ]
    /\ slept' = TRUE
    /\ page_log' = [ page_log EXCEPT ![Len(page_log)].records = page_products ]
    /\ page_products' = << >>
    /\ product_data' = None
    /\ container' = None
    /\ pc' = "page_loop"
    /\ UNCHANGED << max_pages_per_category, categories, ci, page_num, containers_left,
                    products, categories_scraped, attempted, undelayed, last_return,
                    at_start, budget, visited >>

\* Faulty variant: after a break the result holds the page before the empty one.
StoreCategory_PageBefore ==
    /\ \/ pc = "store"
       \/ pc = "page_loop" /\ page_num >= pages_to_scrape
    /\ categories_scraped' =
         [ k \in DOMAIN categories_scraped \cup { CurrentCategory.key } |->
             IF k = CurrentCategory.key
             THEN [ name           |-> CurrentCategory.name,
                    products_found |-> Len(category_products),
                    pages_scraped  |-> IF pc = "store" THEN page_num - 1 ELSE page_num ]
             ELSE categories_scraped[k] ]
    /\ products' = products \o category_products
    /\ scraping_stats' = [ scraping_stats EXCEPT
                             !.total_products = Len(products \o category_products),
                             !.categories_processed = @ + 1 ]
    /\ category_products' = << >>
    /\ last_return' = "returned"
    /\ ci' = ci + 1
    /\ pc' = "category_loop"
    /\ UNCHANGED << max_pages_per_category, categories, page_num, containers_left,
                    page_products, product_data, container, attempted, page_log,
                    slept, undelayed, at_start, budget, visited >>

\* Faulty variant: line 183 is missing, total_products is refreshed only at the end of the run.
StoreCategory_StaleTotal ==
    /\ \/ pc = "store"
       \/ pc = "page_loop" /\ page_num >= pages_to_scrape
    /\ categories_scraped' =
         [ k \in DOMAIN categories_scraped \cup { CurrentCategory.key } |->
             IF k = CurrentCategory.key
             THEN [ name           |-> CurrentCategory.name,
                    products_found |-> Len(category_products),
                    pages_scraped  |-> page_num ]
             ELSE categories_scraped[k] ]
    /\ products' = products \o category_products
    /\ scraping_stats' = [ scraping_stats EXCEPT !.categories_processed = @ + 1 ]
    /\ category_products' = << >>
    /\ last_return' = "returned"
    /\ ci' = ci + 1
    /\ pc' = "category_loop"
    /\ UNCHANGED << max_pages_per_category, categories, page_num, containers_left,
                    page_products, product_data, container, attempted, page_log,
                    slept, undelayed, at_start, budget, visited >>

(* lines 175-183, then 119-125: the loop has ended (exhausted or break),    *)
(* the category result is stored and the orchestrator counts the category.  *)
StoreCategory ==
    /\ \/ pc = "store"
       \/ pc = "page_loop" /\ page_num >= pages_to_scrape
    /\ categories_scraped' =
         [ k \in DOMAIN categories_scraped \cup { CurrentCategory.key } |->
             IF k = CurrentCategory.key
             THEN [ name           |-> CurrentCategory.name,
                    products_found |-> Len(category_products),
                    pages_scraped  |-> page_num ]
             ELSE categories_scraped[k] ]
    /\ products' = products \o category_products
    /\ scraping_stats' = [ scraping_stats EXCEPT
                             !.total_products = Len(products \o category_products),
                             !.categories_processed = @ + 1 ]
    /\ category_products' = << >>
    /\ last_return' = "returned"
    /\ ci' = ci + 1
    /\ pc' = "category_loop"
    /\ UNCHANGED << max_pages_per_category, categories, page_num, containers_left,
                    page_products, product_data, container, attempted, page_log,
                    slept, undelayed, at_start, budget, visited >>

(* lines 131-134 and 369-373: browser.close() and finalize_scraping *)
finalize_scraping ==
    /\ pc = "category_loop"
    /\ ci > Len(categories)
    /\ scraping_stats' = [ scraping_stats EXCEPT !.end_time = TRUE,
                                                 !.total_products = Len(products) ]
    /\ pc' = "done"
    /\ UNCHANGED << max_pages_per_category, categories, ci, page_num, containers_left,
                    page_products, category_products, products, categories_scraped,
                    product_data, container, attempted, page_log, slept, undelayed,
                    last_return, at_start, budget, visited >>

Next ==
    \/ ScrapeAllCategories
    \/ StartCategory
    \/ PageFails
    \/ PageErrorHandled
    \/ CategoryRaises
    \/ PageEmpty
    \/ PageFound
    \/ ProcessProduct
    \/ PageProcessed
    \/ StoreCategory
    \/ finalize_scraping

Spec == Init /\ [][Next]_vars

\* The program is sequential and every step returns: a run that can take a
\* step takes one.
FairSpec == FairInit /\ [][Next]_vars /\ WF_vars(Next)

----------------------------------------------------------------------------
(* The helpers called on their own: an argument list is drawn, the function  *)
(* is applied once and its result kept.  container holds the arguments and   *)
(* product_data the result; nothing else of the scraper is touched.          *)

PriceSteps == { 0, 1 * Scale, 3 * Scale, 31 * Scale, 32 * Scale, 90 * Scale,
                100 * Scale, 200 * Scale }

DiscountArgs ==
    { [ fn |-> "calculate_discount", current_price |-> c, original_price |-> o ] :
        c \in PriceSteps, o \in { None } \cup { Some(x) : x \in PriceSteps } }

CategoryKeys ==
    { base_categories[i].key : i \in 1..Len(base_categories) } \cup { "unknown" }

\* every threshold of price_ranges and of the default, and one hundredth above it
TierPrices ==
    { 0 } \cup
    UNION { { t * Scale, t * Scale + 1 } :
              t \in { price_ranges[i].budget : i \in 1..Len(price_ranges) }
                    \cup { price_ranges[i].premium : i \in 1..Len(price_ranges) }
                    \cup { default_range.budget, default_range.premium } }

TierArgs ==
    { [ fn |-> "classify_price_tier", price |-> p, category_key |-> k ] :
        p \in TierPrices, k \in CategoryKeys }

ScorePrices == { 1, 500 * Scale, 1000 * Scale - 1, 1000 * Scale, 3000 * Scale - 1,
                 3000 * Scale, 5000 * Scale - 1, 5000 * Scale, 10000 * Scale }

ScoreDiscounts == { 0, 1, 25 * Scale, 50 * Scale - 1, 50 * Scale, 50 * Scale + 1, 100 * Scale }

ScoreArgs ==
    { [ fn |-> "calculate_value_score", current_price |-> c, discount_percent |-> d ] :
        c \in ScorePrices, d \in ScoreDiscounts }

Alphabet == { "0", "7", ",", ".", "x" }

\* float() of the cleaned text is exact in hundredths
Exact(t) ==
    LET c    == Keep(t, Digits \cup {"."})
        dots == { i \in 1..Len(c) : c[i] = "." }
    IN  Cardinality(dots) # 1 \/ \A i \in dots : Len(c) - i <= PriceDecimals

ExampleTexts ==
    { << "1", ",", "2", "3", "4", ".", "5", "6", " ", "M", "A", "D" >>,
      << >>,
      << "N", "/", "A" >> }

PriceTexts ==
    { t \in UNION { [ 1..k -> Alphabet ] : k \in 0..MaxTextLen } : Exact(t) }
    \cup ExampleTexts

CleanArgs ==
    { [ fn |-> f, text |-> t ] :
        f \in { "clean_price", "clean_price_standalone" }, t \in PriceTexts }

AbsoluteHrefText == << "https://www.jumia.ma", "/", "hp-15.html" >>

BuilderArgs ==
    { [ fn |-> "extract_product_data",
        c  |-> Container(Some(NameText), p, None, h, FALSE) ] :
        p \in ValidPriceTexts \cup { None },
        h \in { None, Some(<< >>), Some(HrefText), Some(AbsoluteHrefText) } }

CallArgs == DiscountArgs \cup TierArgs \cup ScoreArgs \cup CleanArgs \cup BuilderArgs

CallInit ==
    /\ pc = "call"
    /\ container \in { Some(a) : a \in CallArgs }
    /\ product_data = None
    /\ max_pages_per_category = None
    /\ categories = categories_to_scrape(None)
    /\ ci = 1
    /\ page_num = 0
    /\ containers_left = 0
    /\ page_products = << >>
    /\ category_products = << >>
    /\ products = << >>
    /\ categories_scraped = [ k \in {} |-> 0 ]
    /\ scraping_stats = [ total_products |-> 0, categories_processed |-> 0,
                          pages_scraped |-> 0, errors |-> 0, end_time |-> FALSE ]
    /\ attempted = << >>
    /\ page_log = << >>
    /\ slept = FALSE
    /\ undelayed = FALSE
    /\ last_return = "none"
    /\ at_start = [ errors |-> 0, products |-> 0 ]
    /\ budget = 0
    /\ visited = [ ok |-> 0, fail |-> 0, zero |-> 0 ]

Args == Val(container)

Result == Val(product_data)

Called(fn) == pc = "call" /\ Args.fn = fn

Returns(value) ==
    /\ product_data' = Some(value)
    /\ pc' = "returned"
    /\ UNCHANGED << max_pages_per_category, categories, ci, page_num, containers_left,
                    page_products, category_products, products, categories_scraped,
                    scraping_stats, container, attempted, page_log, slept, undelayed,
                    last_return, at_start, budget, visited >>

Call_calculate_discount ==
    /\ Called("calculate_discount")
    /\ Returns(calculate_discount(Args.current_price, NumberOrZero(Args.original_price)))

Call_classify_price_tier ==
    /\ Called("classify_price_tier")
    /\ Returns(classify_price_tier(Args.price, Args.category_key))

\* original_price is a parameter the function never reads
Call_calculate_value_score ==
    /\ Called("calculate_value_score")
    /\ Returns(calculate_value_score(Args.current_price, 0, Args.discount_percent))

Call_clean_price ==
    /\ Called("clean_price")
    /\ Returns(Some(clean_price(Args.text)))

Call_clean_price_standalone ==
    /\ Called("clean_price_standalone")
    /\ Returns(clean_price_standalone(Args.text))

Call_extract_product_data ==
    /\ Called("extract_product_data")
    /\ Returns(extract_product_data(Args.c, CurrentCategory.key, CurrentCategory.name,
                                    Len(products) + Len(page_products) + 1))

CallNext ==
    \/ Call_calculate_discount
    \/ Call_classify_price_tier
    \/ Call_calculate_value_score
    \/ Call_clean_price
    \/ Call_clean_price_standalone
    \/ Call_extract_product_data

CallSpec == CallInit /\ [][CallNext]_vars

----------------------------------------------------------------------------
(* Properties *)

AllRecords == products \o category_products \o page_products

RECURSIVE CountOutcome(_, _)
CountOutcome(log, outcome) ==
    IF log = << >> THEN 0
    ELSE (IF Head(log).outcome = outcome THEN 1 ELSE 0) + CountOutcome(Tail(log), outcome)

RECURSIVE CountKind(_, _)
CountKind(kinds, kind) ==
    IF kinds = << >> THEN 0
    ELSE (IF Head(kinds) = kind THEN 1 ELSE 0) + CountKind(Tail(kinds), kind)

RECURSIVE CountKindLog(_, _)
CountKindLog(log, kind) ==
    IF log = << >> THEN 0
    ELSE CountKind(Head(log).kinds, kind) + CountKindLog(Tail(log), kind)

RECURSIVE RecordsLogged(_)
RecordsLogged(log) ==
    IF log = << >> THEN << >> ELSE Head(log).records \o RecordsLogged(Tail(log))

\* The category whose scrape_category call ended last, once it has ended
Ended == pc = "category_loop" /\ ci > 1
Returned == Ended /\ last_return = "returned"
Raised == Ended /\ last_return = "raised"
LastCategory == categories[ci - 1]
LastResult == categories_scraped[LastCategory.key]

ConfiguredOrder == [ i \in 1..Len(base_categories) |-> base_categories[i].key ]

IsPrefix(s, t) == Len(s) <= Len(t) /\ s = SubSeq(t, 1, Len(s))

\* C1: the K records of the run-level collection carry the identifiers
\* JUM_0001..JUM_000K in emission order, none repeated and none skipped, also
\* between two pages of one category and between two categories.
C1_IdentifiersSequential ==
    \A i \in 1..Len(products) : products[i].product_id = product_id_of(i)

\* C2: a category configured for 2 pages whose page 1 holds 3 containers (2
\* with a valid price, 1 whose price cleans to zero) and whose page 2 holds
\* none adds exactly 2 records, records pages_scraped = 1 and leaves the error
\* counter where it was.
C2_Scenario ==
    /\ Returned
    /\ LastCategory.pages = 2
    /\ Len(page_log) = 2
    /\ page_log[1].outcome = "ok"
    /\ Len(page_log[1].kinds) = 3
    /\ CountKind(page_log[1].kinds, "valid") = 2
    /\ CountKind(page_log[1].kinds, "zero") = 1
    /\ page_log[2].outcome = "zero"

C2_EarlyStopResult ==
    C2_Scenario =>
        /\ Len(products) = at_start.products + 2
        /\ LastResult.products_found = 2
        /\ LastResult.pages_scraped = 1
        /\ scraping_stats.errors = at_start.errors

C4_ZeroPriceRejected ==
    /\ (~IsNone(container) /\ KindOf(Val(container)) = "zero") => IsNone(product_data)
    /\ \A i \in 1..Len(AllRecords) : AllRecords[i].current_price > 0

C4_Witness ==
    /\ ~IsNone(container)
    /\ KindOf(Val(container)) = "zero"
    /\ ~IsNone(Val(container).name)
    /\ ~IsNone(Val(container).old)
    /\ ~IsNone(Val(container).href)
    /\ IsNone(product_data)
    /\ Len(page_products) > 0

\* C5 as stated: every record's original_price is None or strictly greater
\* than its current_price.
C5_OriginalAbsentOrGreater ==
    \A i \in 1..Len(AllRecords) :
        \/ IsNone(AllRecords[i].original_price)
        \/ Val(AllRecords[i].original_price) > AllRecords[i].current_price

OldPriceOf(c) == clean_price(IF IsNone(c.old) THEN << "0" >> ELSE Val(c.old))

\* C5 as amended: original_price is None exactly when the old-price text is
\* missing or cleans to zero; otherwise it is the cleaned value, above zero,
\* and it is kept also when it is not greater than current_price, in which
\* case discount_percent is 0 and is_on_sale is false.
C5_OriginalAbsentOrPositive ==
    /\ \A i \in 1..Len(AllRecords) :
          LET r == AllRecords[i]
          IN  /\ IsNone(r.original_price) \/ Val(r.original_price) > 0
              /\ (~IsNone(r.original_price) /\ Val(r.original_price) <= r.current_price)
                    => (r.discount_percent = 0 /\ ~r.is_on_sale)
    /\ ~IsNone(product_data) =>
          /\ IsNone(Val(product_data).original_price) <=> (OldPriceOf(Val(container)) = 0)
          /\ ~IsNone(Val(product_data).original_price) =>
                Val(Val(product_data).original_price) = OldPriceOf(Val(container))

C5_Witness ==
    /\ ~IsNone(product_data)
    /\ ~IsNone(Val(product_data).original_price)
    /\ Val(Val(product_data).original_price) < Val(product_data).current_price
    /\ Len(products) > 0

\* C6: a container whose extraction throws produces no record and raises the
\* error counter by one: the counter equals its value at the start of the
\* category plus the failed pages plus the containers that threw.
C6_ItemFailureCounted ==
    (pc = "process" /\ ~IsNone(container) /\ Val(container).raises) =>
        /\ IsNone(product_data)
        /\ scraping_stats.errors = at_start.errors + CountOutcome(page_log, "fail")
                                   + CountKindLog(page_log, "raised")

\* C7: after scrape_category has failed with an uncaught error, the error
\* counter has grown, the orchestrator is at the next category, and the
\* records of the pages processed before the failure are in the run-level
\* collection.
C7_PartialResultsKept ==
    Raised =>
        /\ scraping_stats.errors > at_start.errors
        /\ products = SubSeq(products, 1, at_start.products) \o RecordsLogged(page_log)

\* C8: every category is attempted in the configured order, whatever fails,
\* and the run reaches finalize_scraping (end time and total count set).
C8_RunCompletes ==
    /\ [](IsPrefix(attempted, ConfiguredOrder))
    /\ <>( /\ pc = "done"
           /\ attempted = ConfiguredOrder
           /\ scraping_stats.end_time
           /\ scraping_stats.total_products = Len(products) )

C8_Witness ==
    /\ pc = "done"
    /\ last_return = "raised"
    /\ attempted = ConfiguredOrder
    /\ scraping_stats.categories_processed = Len(categories) - 1
    /\ scraping_stats.errors >= 1
    /\ scraping_stats.end_time

\* C9: a positive integer override is the page count of every category; with
\* no override every category has its own default page count; the categories
\* and their order are the configured ones in both cases; and a category whose
\* pages all hold products is asked for exactly that many pages.
C9_OverrideUniform ==
    pc # "init" =>
        /\ Len(categories) = Len(base_categories)
        /\ \A i \in 1..Len(categories) :
              /\ categories[i].key = base_categories[i].key
              /\ categories[i].name = base_categories[i].name
              /\ (~IsNone(max_pages_per_category) /\ Val(max_pages_per_category) >= 1)
                    => categories[i].pages = Val(max_pages_per_category)
              /\ IsNone(max_pages_per_category)
                    => categories[i].pages = base_categories[i].default_pages
        /\ (pc \in {"page_loop", "page_except", "process", "store"})
              => page_num <= pages_to_scrape
        /\ (Returned /\ CountOutcome(page_log, "zero") = 0)
              => Len(page_log) = LastCategory.pages

C9_Witness ==
    /\ Returned
    /\ ~IsNone(max_pages_per_category)
    /\ LastCategory.pages = Val(max_pages_per_category)
    /\ LastCategory.pages # base_categories[ci - 1].default_pages
    /\ CountOutcome(page_log, "zero") = 0
    /\ Len(page_log) = LastCategory.pages

\* C10: within one category no page after the first is requested unless the
\* polite delay ran after the previous page, whether that page was processed
\* or its fetch failed.
C10_DelayBetweenPages == ~undelayed


Returned_from(fn) == pc = "returned" /\ Args.fn = fn

Abs(x) == IF x < 0 THEN -x ELSE x

\* C11: calculate_discount returns 0 when the original price is absent or not
\* above the current price, and otherwise ((original - current) / original)
\* * 100 rounded to two decimals; for current > 0 the result is in [0, 100];
\* discount(100, 200) = 50, discount(100, 90) = 0, discount(100, None) = 0.
C11_Discount ==
    Returned_from("calculate_discount") =>
        LET c == Args.current_price
            o == Args.original_price
            d == Result
        IN  /\ (IsNone(o) \/ Val(o) <= c) => d = 0
            /\ (~IsNone(o) /\ Val(o) > c) =>
                  2 * Abs(d * Val(o) - (Val(o) - c) * 100 * Scale) <= Val(o)
            /\ c > 0 => (0 <= d /\ d <= 100 * Scale)
            /\ (c = 100 * Scale /\ o = Some(200 * Scale)) => d = 50 * Scale
            /\ (c = 100 * Scale /\ o = Some(90 * Scale)) => d = 0
            /\ (c = 100 * Scale /\ o = None) => d = 0

C11_Witness ==
    /\ Returned_from("calculate_discount")
    /\ Args.current_price = 1 * Scale
    /\ Args.original_price = Some(3 * Scale)
    /\ Result = 6667

\* C12: classify_price_tier gives Budget up to the category's budget
\* threshold, Mid-range above it up to the premium threshold and Premium
\* above that, with (1000, 5000) for an unknown key; both thresholds are
\* inclusive: 1000 Budget, 1000.01 Mid-range, 5000 Mid-range, 5000.01 Premium.
C12_Tier ==
    Returned_from("classify_price_tier") =>
        LET p == Args.price
            k == Args.category_key
            known == { i \in 1..Len(price_ranges) : price_ranges[i].key = k }
            b == IF known = {} THEN 1000 * Scale
                 ELSE price_ranges[CHOOSE i \in known : TRUE].budget * Scale
            m == IF known = {} THEN 5000 * Scale
                 ELSE price_ranges[CHOOSE i \in known : TRUE].premium * Scale
        IN  /\ Result \in { "Budget", "Mid-range", "Premium" }
            /\ Result = "Budget" <=> p <= b
            /\ Result = "Mid-range" <=> (b < p /\ p <= m)
            /\ Result = "Premium" <=> p > m
            /\ (k = "unknown" /\ p = 1000 * Scale) => Result = "Budget"
            /\ (k = "unknown" /\ p = 1000 * Scale + 1) => Result = "Mid-range"
            /\ (k = "unknown" /\ p = 5000 * Scale) => Result = "Mid-range"
            /\ (k = "unknown" /\ p = 5000 * Scale + 1) => Result = "Premium"

C12_Witness ==
    /\ Returned_from("classify_price_tier")
    /\ Args.category_key = "unknown"
    /\ Args.price = 5000 * Scale + 1
    /\ Result = "Premium"

\* C13: calculate_value_score is 50 + min(discount_percent * 0.6, 30) + the
\* price bonus (below 1000: 20, below 3000: 10, below 5000: 0, else -10),
\* clamped to [0, 100]; it lies in [0, 100] for every price and every
\* discount in [0, 100], and value_score(500, 1000, 50) = 100.
C13_ValueScore ==
    Returned_from("calculate_value_score") =>
        LET c == Args.current_price
            d == Args.discount_percent
            bonus == IF c < 1000 * Scale THEN 20
                     ELSE IF c < 3000 * Scale THEN 10
                     ELSE IF c < 5000 * Scale THEN 0 ELSE -10
            capped == IF 6 * d < 30000 THEN 6 * d ELSE 30000
            total == 50000 + capped + 1000 * bonus
            clamped == IF total < 0 THEN 0 ELSE IF total > 100000 THEN 100000 ELSE total
        IN  /\ 0 <= Result /\ Result <= 100 * Scale
            /\ 2 * Abs(10 * Result - clamped) <= 10
            /\ (c = 500 * Scale /\ d = 50 * Scale) => Result = 100 * Scale

C13_Witness ==
    /\ Returned_from("calculate_value_score")
    /\ Args.current_price = 500 * Scale
    /\ Args.discount_percent = 50 * Scale
    /\ Result = 100 * Scale

\* The text, once cleaned, is nothing float() accepts: no digit, or more than
\* one period.
Unparseable(t) ==
    \/ \A i \in 1..Len(t) : t[i] \notin Digits
    \/ Cardinality({ i \in 1..Len(t) : t[i] = "." }) > 1

CleanExamples(t, r) ==
    /\ t = << "1", ",", "2", "3", "4", ".", "5", "6", " ", "M", "A", "D" >> => r = Some(123456)
    /\ t = << >> => r = Some(0)
    /\ t = << "N", "/", "A" >> => r = Some(0)

\* C14 as stated, of both clean_price functions: a non-negative number for
\* every text, 0.0 when nothing parseable is left.
C14_CleanPriceTotal ==
    (Returned_from("clean_price") \/ Returned_from("clean_price_standalone")) =>
        /\ ~IsNone(Result)
        /\ Val(Result) >= 0
        /\ Unparseable(Args.text) => Result = Some(0)
        /\ CleanExamples(Args.text, Result)

\* C14 as amended: the method of EnhancedJumiaScraper is as stated; the
\* function of jumia_scrapper.py never raises either and returns the same
\* number for a parseable text, but None where the method returns 0.0 for a
\* text with nothing parseable.  Characters other than digits and periods do
\* not change the result.
C14_CleanPriceEnhanced ==
    /\ Returned_from("clean_price") =>
          /\ ~IsNone(Result)
          /\ Val(Result) >= 0
          /\ Unparseable(Args.text) => Result = Some(0)
          /\ Val(Result) = clean_price(Keep(Args.text, Digits \cup {"."}))
          /\ CleanExamples(Args.text, Result)
    /\ Returned_from("clean_price_standalone") =>
          /\ Unparseable(Args.text) <=> IsNone(Result)
          /\ ~IsNone(Result) => Result = Some(clean_price(Args.text))

C14_Witness ==
    /\ Returned_from("clean_price")
    /\ Args.text = << "1", ",", "2", "3", "4", ".", "5", "6", " ", "M", "A", "D" >>
    /\ Result = Some(123456)

\* C18: the url of a record is the site root followed by the link when the
\* link starts with "/", the link itself when it is absolute, and empty when
\* the container has no link.
C18_UrlAbsoluteOrEmpty ==
    (Returned_from("extract_product_data") /\ ~IsNone(Result)) =>
        LET h == Args.c.href
        IN  Val(Result).url =
              IF IsNone(h) \/ Val(h) = << >> THEN << >>
              ELSE IF Head(Val(h)) = "/" THEN SiteRoot \o Val(h)
              ELSE Val(h)

\* The category whose scrape_category call is running
InProgress == pc \in { "page_loop", "page_except", "process", "store" }

HasZero(log) == \E i \in 1..Len(log) : log[i].outcome = "zero"

\* C15: when page k of a category returns zero containers, no later page of
\* that category is requested, the error counter is not incremented for it,
\* and the next category in order is still run.
C15_ZeroStopsCategory ==
    /\ \A i \in 1..Len(page_log) : page_log[i].outcome = "zero" => i = Len(page_log)
    /\ last_return # "none" =>
          scraping_stats.errors =
              at_start.errors + CountOutcome(page_log, "fail")
                              - (IF pc = "page_except" THEN 1 ELSE 0)
    /\ HasZero(page_log) =>
          /\ pc \in { "store", "category_loop", "done" }
          /\ pc = "store" => ENABLED StoreCategory
          /\ pc = "category_loop" =>
                /\ last_return = "returned"
                /\ ci = Len(attempted) + 1
                /\ ci <= Len(categories) => ENABLED StartCategory

C15_Witness ==
    /\ Returned
    /\ ci <= Len(categories)
    /\ Len(page_log) >= 2
    /\ Len(page_log) < LastCategory.pages
    /\ page_log[1].outcome = "fail"
    /\ page_log[Len(page_log)].outcome = "zero"

RECURSIVE SumFound(_)
SumFound(keys) ==
    IF keys = {} THEN 0
    ELSE LET k == CHOOSE x \in keys : TRUE
         IN  categories_scraped[k].products_found + SumFound(keys \ {k})

\* C19: whenever no category is in progress (before the first, between two
\* categories, at the end of the run) total_products is the size of the
\* run-level collection and the sum of products_found over the results
\* written so far; the collection grows only by whole categories.
C19_TotalProducts ==
    /\ ~InProgress =>
          /\ scraping_stats.total_products = Len(products)
          /\ Len(products) = SumFound(DOMAIN categories_scraped)
    /\ InProgress => Len(products) = at_start.products
    /\ Returned => Len(products) = at_start.products + LastResult.products_found
    /\ Raised => Len(products) = at_start.products

C19_Witness ==
    /\ pc = "done"
    /\ scraping_stats.total_products = 3
    /\ \E k \in DOMAIN categories_scraped : categories_scraped[k].products_found = 1
    /\ \E k \in DOMAIN categories_scraped : categories_scraped[k].products_found = 2

\* The kinds of the containers of the page being processed, in page order
KindsOfPage == page_log[Len(page_log)].kinds

\* C17 as stated: the builder is called for the container at 0-based position
\* i of a page with index = (records in the run-level collection before the
\* page) + i + 1.
C17_IndexByPosition ==
    (pc = "process" /\ ~IsNone(product_data)) =>
        Val(product_data).product_id = product_id_of(Len(products) + (Len(KindsOfPage) - 1) + 1)

\* C17 as amended: the index is (records in the run-level collection) +
\* (records accepted so far on this page) + 1, so a rejected container uses up
\* no index; the records returned are the non-rejected ones in page order.
C17_IndexByAccepted ==
    /\ pc = "process" =>
          /\ Len(page_products) = CountKind(KindsOfPage, "valid")
          /\ \A n \in 1..Len(page_products) :
                page_products[n].product_id = product_id_of(Len(products) + n)
          /\ Len(KindsOfPage) > 0 =>
                /\ ~IsNone(product_data) <=> KindsOfPage[Len(KindsOfPage)] = "valid"
                /\ ~IsNone(product_data) =>
                      /\ page_products[Len(page_products)] = Val(product_data)
                      /\ Val(product_data).current_price = clean_price(Val(Val(container).price))
    /\ \A j \in 1..Len(page_log) :
          (page_log[j].outcome = "ok" /\ (j < Len(page_log) \/ pc # "process")) =>
              Len(page_log[j].records) = CountKind(page_log[j].kinds, "valid")

C17_Witness ==
    /\ pc = "process"
    /\ Len(products) >= 1
    /\ KindsOfPage = << "zero", "valid" >>
    /\ Len(page_products) = 1
    /\ page_products[1].product_id = product_id_of(Len(products) + 1)

RECURSIVE PagesRequested(_)
\* The page counts requested for the first n categories of the run
PagesRequested(n) == IF n = 0 THEN 0 ELSE categories[n].pages + PagesRequested(n - 1)

\* C20: pages_scraped is the number of page visits so far that returned at
\* least one container and were processed without a page-level exception; a
\* failed visit and the visit that found no container never increment it, so
\* it never exceeds the sum of the page counts requested for the categories,
\* and a requested page increments at most one of pages_scraped and errors.
C20_PagesScraped ==
    LET visits == visited.ok + visited.fail + visited.zero
        processing == IF pc = "process" THEN 1 ELSE 0
        handling == IF pc = "page_except" THEN 1 ELSE 0
    IN  /\ scraping_stats.pages_scraped = visited.ok - processing
        /\ scraping_stats.errors = visited.fail - handling
        /\ scraping_stats.pages_scraped + scraping_stats.errors <= visits - visited.zero
        /\ visits <= PagesRequested(Len(attempted))
        /\ scraping_stats.pages_scraped <= PagesRequested(Len(categories))

C20_Witness ==
    /\ pc = "done"
    /\ visited.fail >= 1
    /\ visited.zero >= 1
    /\ visited.ok >= 2
    /\ scraping_stats.pages_scraped = visited.ok

====
